---- MODULE Spec2Model ----
(***************************************************************************)
(* The session provider get_db (database.py) and the userinfo table        *)
(* declared by User (models.py).                                           *)
(*                                                                         *)
(* get_db is a generator: the caller creates it, resumes it once to obtain *)
(* the handle, uses the handle, and ends the scope by resuming it again    *)
(* (normal end), by throwing its failure into it, or by closing it.        *)
(* The handle is a Session made by SessionLocal (autocommit=False,         *)
(* autoflush=False) on a file-backed SQLite engine: changes are staged in  *)
(* the Session, written inside a transaction by flush, and reach the file  *)
(* at commit.  SQLite admits one write transaction at a time; a second     *)
(* writer gets "database is locked" instead of blocking forever.           *)
(***************************************************************************)
EXTENDS Integers, Sequences, FiniteSets, TLC

\* ------------------------------------------------------------------ bounds
MaxOps == 2         \* add / set-name / delete calls in one run

\* two concurrent units of work, each opening one get_db scope
Scopes == {"u1", "u2"}
Handles == 1..Cardinality(Scopes)

Ids == {"a", "b"}
Puuids == {"p", "q"}
None == "None"                      \* a NULL name
Names == {"x", None}
CallerErrors == {"HTTPException"}   \* a failure of the caller's own
StoreErrors == {"IntegrityError", "OperationalError", "StaleDataError"}

\* ------------------------------------------------------------ configuration
\* sessionmaker(autocommit=False, autoflush=False, bind=engine)
autocommit_on == TRUE               \* sessionmaker(autocommit=True, ..)
autocommit == FALSE
autoflush == FALSE

\* class User: the attributes declared as Column, and those among them
\* declared primary_key=True
Columns_noname == {"id", "puuid"}   \* name declared without Column(..)
Columns == {"id", "puuid", "name"}
PrimaryKey_withname == {"id", "puuid", "name"}  \* name a key column too
PrimaryKey == {"id", "puuid"}

\* a User object as the caller builds it
User == [id : Ids, puuid : Puuids, name : Names]

\* the row of userinfo written for User object r: its mapped columns; an
\* attribute that is no Column is not stored and reads back as NULL
Row(r) == [c \in {"id", "puuid", "name"} |-> IF c \in Columns THEN r[c] ELSE None]

\* the identity of a row: its primary-key columns
Key(r) == [c \in PrimaryKey |-> r[c]]

SameKey(r1, r2) == Key(r1) = Key(r2)

\* a table declared without any primary key: nothing is ever refused
Violates_never(table, r) == FALSE

\* the primary-key constraint of userinfo: a row with the key of r exists
Violates(table, r) == \E x \in table : SameKey(x, r)

VARIABLES
    store,        \* the committed rows of userinfo in loldata.db
    writer,       \* the handles holding SQLite's write lock ({} or one handle)
    wview,        \* the rows as the open write transaction sees them
    nextHandle,   \* the number of the next Session SessionLocal() makes
    state,        \* per handle: "unborn", "open" or "closed"
    staged,       \* per handle: the changes added to the Session, not flushed
    ops,          \* add / set-name / delete calls made so far
    closes,       \* per handle: how many times get_db ran db.close() on it
    gen,          \* per scope: where its get_db generator stands
    handle,       \* per scope: the handle its generator yielded (0: none)
    fault,        \* per scope: the failure raised in the caller's use
    thrown,       \* per scope: the failure the caller threw into get_db
    raised,       \* per scope: what get_db's last step raised to the caller
    log,          \* per scope: the events of the current get_db invocation
    begin,        \* per scope: the store when the scope began
    committed,    \* per scope: the caller issued commit on its handle
    others,       \* per scope: another scope committed since it began
    uncommitted   \* per scope: rows it changed and has not committed

vars == <<store, writer, wview, nextHandle, state, staged, ops, closes, gen,
          handle, fault, thrown, raised, log, begin, committed, others,
          uncommitted>>

dbVars == <<store, writer, wview>>
sessVars == <<state, staged, ops, closes>>
genVars == <<gen, handle, thrown, raised, log, nextHandle>>
ghostVars == <<begin, committed, others, uncommitted>>

\* the rows loldata.db holds when the process starts: one user
InitialStore == {[id |-> "a", puuid |-> "p", name |-> "x"]}

Init ==
    /\ store = InitialStore
    /\ writer = {}
    /\ wview = {}
    /\ nextHandle = 1
    /\ state = [h \in Handles |-> "unborn"]
    /\ staged = [h \in Handles |-> {}]
    /\ ops = 0
    /\ closes = [h \in Handles |-> 0]
    /\ gen = [s \in Scopes |-> "none"]
    /\ handle = [s \in Scopes |-> 0]
    /\ fault = [s \in Scopes |-> "none"]
    /\ thrown = [s \in Scopes |-> "none"]
    /\ raised = [s \in Scopes |-> "none"]
    /\ log = [s \in Scopes |-> <<>>]
    /\ begin = [s \in Scopes |-> store]
    /\ committed = [s \in Scopes |-> FALSE]
    /\ others = [s \in Scopes |-> FALSE]
    /\ uncommitted = [s \in Scopes |-> {}]

\* ------------------------------------------------------------ the Session
\* one module-level Session handed to every caller
SessionLocal_shared == CHOOSE h \in Handles : \A g \in Handles : h <= g

\* SessionLocal(): a new Session of its own on every call
SessionLocal == nextHandle

\* the rows a query through handle h reads: those of its own open write
\* transaction, else the committed ones; staged changes are not flushed
\* first unless autoflush is set
Apply(table, changes) ==
    (table \ {x \in table : \E o \in changes :
                 o.op \in {"update", "delete"} /\ SameKey(x, o.rec)})
      \cup {Row(o.rec) : o \in {c \in changes : c.op \in {"insert", "update"}}}

\* a connection reading the rows of whatever write transaction is open
Visible_uncommitted(h) == IF writer # {} THEN wview ELSE store

Visible(h) ==
    LET base == IF h \in writer THEN wview ELSE store
    IN  IF autoflush THEN Apply(base, staged[h]) ELSE base

\* Session.get(User, key): the rows with that key a query through h returns
Get(h, k) == {x \in Visible(h) : Key(x) = k}

\* what flushing the staged changes of h raises ("none": the flush succeeds)
FlushError(h) ==
    LET base == IF h \in writer THEN wview ELSE store
    IN  IF writer # {} /\ h \notin writer THEN "OperationalError"
        ELSE IF \E o \in staged[h] : o.op = "insert" /\ Violates(base, o.rec)
             THEN "IntegrityError"
        ELSE IF \E o \in staged[h] : o.op \in {"update", "delete"}
                                      /\ ~Violates(base, o.rec)
             THEN "StaleDataError"
        ELSE "none"

\* the rows of the write transaction of h after a successful flush
Flushed(h) == Apply(IF h \in writer THEN wview ELSE store, staged[h])

\* finally: db.commit(); db.close()
CloseSession_commit(h) ==
    /\ state' = [state EXCEPT ![h] = "closed"]
    /\ staged' = [staged EXCEPT ![h] = {}]
    /\ closes' = [closes EXCEPT ![h] = @ + 1]
    /\ writer' = writer \ {h}
    /\ wview' = IF h \in writer THEN {} ELSE wview
    /\ store' = IF FlushError(h) = "none" THEN Flushed(h) ELSE store
    /\ UNCHANGED ops

\* db.close(): the staged changes are dropped and an open transaction is
\* rolled back; nothing is committed
CloseSession(h) ==
    /\ state' = [state EXCEPT ![h] = "closed"]
    /\ staged' = [staged EXCEPT ![h] = {}]
    /\ closes' = [closes EXCEPT ![h] = @ + 1]
    /\ writer' = writer \ {h}
    /\ wview' = IF h \in writer THEN {} ELSE wview
    /\ UNCHANGED <<store, ops>>

\* ------------------------------------------------------------------ get_db
\* get_db(): the call makes the generator; nothing of its body runs yet
get_db(s) ==
    /\ gen[s] = "none"
    /\ gen' = [gen EXCEPT ![s] = "created"]
    /\ UNCHANGED <<dbVars, sessVars, nextHandle, handle, thrown, raised, log,
                   fault, ghostVars>>

\* "return db" in place of "yield db": finally runs before the caller has
\* the handle
get_db_acquire_return(s) ==
    /\ gen[s] = "created"
    /\ handle' = [handle EXCEPT ![s] = SessionLocal]
    /\ state' = [state EXCEPT ![SessionLocal] = "closed"]
    /\ closes' = [closes EXCEPT ![SessionLocal] = @ + 1]
    /\ nextHandle' = nextHandle + 1
    /\ gen' = [gen EXCEPT ![s] = "yielded"]
    /\ log' = [log EXCEPT ![s] = <<"acquire", "release", "yield">>]
    /\ begin' = [begin EXCEPT ![s] = store]
    /\ others' = [others EXCEPT ![s] = FALSE]
    /\ UNCHANGED <<dbVars, staged, ops, fault, thrown, raised, committed,
                   uncommitted>>

\* the first next(): db = SessionLocal(); try: yield db
get_db_acquire(s) ==
    /\ gen[s] = "created"
    /\ LET db == SessionLocal
       IN  /\ handle' = [handle EXCEPT ![s] = db]
           /\ state' = [state EXCEPT ![db] = "open"]
    /\ nextHandle' = nextHandle + 1
    /\ gen' = [gen EXCEPT ![s] = "yielded"]
    /\ log' = [log EXCEPT ![s] = <<"acquire", "yield">>]
    /\ begin' = [begin EXCEPT ![s] = store]
    /\ others' = [others EXCEPT ![s] = FALSE]
    /\ UNCHANGED <<dbVars, staged, ops, closes, fault, thrown, raised,
                   committed, uncommitted>>

\* the second next(), the scope ending normally: finally: db.close(), and the
\* generator returns (StopIteration)
get_db_return(s) ==
    /\ gen[s] = "yielded"
    /\ fault[s] = "none"
    /\ CloseSession(handle[s])
    /\ gen' = [gen EXCEPT ![s] = "finished"]
    /\ raised' = [raised EXCEPT ![s] = "StopIteration"]
    /\ log' = [log EXCEPT ![s] = Append(@, "release")]
    /\ uncommitted' = [uncommitted EXCEPT ![s] = {}]
    /\ UNCHANGED <<nextHandle, handle, fault, thrown, begin, committed, others>>

\* get_db without try/finally: the failure leaves the generator at the yield
\* and db.close() is never reached
get_db_throw_noclose(s, e) ==
    /\ gen[s] = "yielded"
    /\ e \in (IF fault[s] = "none" THEN CallerErrors ELSE {fault[s]})
    /\ gen' = [gen EXCEPT ![s] = "finished"]
    /\ thrown' = [thrown EXCEPT ![s] = e]
    /\ raised' = [raised EXCEPT ![s] = e]
    /\ fault' = [fault EXCEPT ![s] = "none"]
    /\ UNCHANGED <<dbVars, sessVars, nextHandle, handle, log, ghostVars>>

\* "except Exception: pass" before the finally: the failure is swallowed and
\* the generator returns
get_db_throw_swallow(s, e) ==
    /\ gen[s] = "yielded"
    /\ e \in (IF fault[s] = "none" THEN CallerErrors ELSE {fault[s]})
    /\ CloseSession(handle[s])
    /\ gen' = [gen EXCEPT ![s] = "finished"]
    /\ thrown' = [thrown EXCEPT ![s] = e]
    /\ raised' = [raised EXCEPT ![s] = "StopIteration"]
    /\ fault' = [fault EXCEPT ![s] = "none"]
    /\ log' = [log EXCEPT ![s] = Append(@, "release")]
    /\ uncommitted' = [uncommitted EXCEPT ![s] = {}]
    /\ UNCHANGED <<nextHandle, handle, begin, committed, others>>

\* throw(e), the caller's use failing with e (the failure of a store call, or
\* one of the caller's own): e is raised at the yield, finally: db.close()
\* runs, and e leaves the generator
get_db_throw(s, e) ==
    /\ gen[s] = "yielded"
    /\ e \in (IF fault[s] = "none" THEN CallerErrors ELSE {fault[s]})
    /\ CloseSession(handle[s])
    /\ gen' = [gen EXCEPT ![s] = "finished"]
    /\ thrown' = [thrown EXCEPT ![s] = e]
    /\ raised' = [raised EXCEPT ![s] = e]
    /\ fault' = [fault EXCEPT ![s] = "none"]
    /\ log' = [log EXCEPT ![s] = Append(@, "release")]
    /\ uncommitted' = [uncommitted EXCEPT ![s] = {}]
    /\ UNCHANGED <<nextHandle, handle, begin, committed, others>>

\* a next() on the finished generator: StopIteration, and no further yield
get_db_exhausted(s) ==
    /\ gen[s] = "finished"
    /\ UNCHANGED vars

\* close() of the suspended generator (the caller drops the scope):
\* GeneratorExit is raised at the yield, finally: db.close() runs, and
\* nothing is raised to the caller
get_db_close(s) ==
    /\ gen[s] = "yielded"
    /\ fault[s] = "none"
    /\ CloseSession(handle[s])
    /\ gen' = [gen EXCEPT ![s] = "finished"]
    /\ log' = [log EXCEPT ![s] = Append(@, "release")]
    /\ uncommitted' = [uncommitted EXCEPT ![s] = {}]
    /\ UNCHANGED <<nextHandle, handle, fault, thrown, raised, begin,
                   committed, others>>

\* ------------------------------------------- the caller's use of the handle
Using(s) ==
    /\ gen[s] = "yielded"
    /\ fault[s] = "none"
    /\ state[handle[s]] = "open"

\* a change is staged in the Session; the store is not touched
Stage(s, o) ==
    /\ Using(s)
    /\ ops < MaxOps
    /\ \A c \in staged[handle[s]] : ~SameKey(c.rec, o.rec)
    /\ staged' = [staged EXCEPT ![handle[s]] = @ \cup {o}]
    /\ ops' = ops + 1
    /\ uncommitted' = [uncommitted EXCEPT ![s] = @ \cup {Key(o.rec)}]
    /\ UNCHANGED <<dbVars, state, closes, genVars, fault, begin, committed,
                   others>>

\* db.add(User(id=.., puuid=.., name=..))
add(s, r) == Stage(s, [op |-> "insert", rec |-> r])

\* u = db.get(User, key); u.name = n
set_name(s, r, n) ==
    /\ r \in Visible(handle[s])
    /\ n # r.name
    /\ Stage(s, [op |-> "update", rec |-> [r EXCEPT !.name = n]])

\* u = db.get(User, key); db.delete(u)
delete(s, r) ==
    /\ r \in Visible(handle[s])
    /\ Stage(s, [op |-> "delete", rec |-> r])

\* the store after the staged changes of h were written: with autocommit the
\* flush commits them at once, without it they stay in the write transaction
\* of h until commit
WriteFlushed(h) ==
    IF autocommit
    THEN /\ store' = Flushed(h)
         /\ UNCHANGED <<writer, wview>>
    ELSE /\ wview' = Flushed(h)
         /\ writer' = {h}
         /\ UNCHANGED store

\* a failed flush: the transaction of h is rolled back, the staged changes
\* are lost, and the store's error is raised in the caller's scope
FailFlush(s, err) ==
    /\ staged' = [staged EXCEPT ![handle[s]] = {}]
    /\ writer' = writer \ {handle[s]}
    /\ wview' = IF handle[s] \in writer THEN {} ELSE wview
    /\ fault' = [fault EXCEPT ![s] = err]
    /\ uncommitted' = [uncommitted EXCEPT ![s] = {}]
    /\ UNCHANGED <<store, state, ops, closes, genVars, begin, committed,
                   others>>

\* db.flush(): the staged changes are written inside the transaction
flush(s) ==
    /\ Using(s)
    /\ staged[handle[s]] # {}
    /\ IF FlushError(handle[s]) = "none"
       THEN /\ WriteFlushed(handle[s])
            /\ staged' = [staged EXCEPT ![handle[s]] = {}]
            /\ UNCHANGED <<state, ops, closes, genVars, fault, ghostVars>>
       ELSE FailFlush(s, FlushError(handle[s]))

\* db.commit(): flush, then the transaction's rows become the store
commit(s) ==
    /\ Using(s)
    /\ staged[handle[s]] # {} \/ handle[s] \in writer
    /\ IF FlushError(handle[s]) = "none"
       THEN /\ store' = Flushed(handle[s])
            /\ writer' = writer \ {handle[s]}
            /\ wview' = {}
            /\ staged' = [staged EXCEPT ![handle[s]] = {}]
            /\ committed' = [committed EXCEPT ![s] = TRUE]
            /\ uncommitted' = [uncommitted EXCEPT ![s] = {}]
            /\ others' = [t \in Scopes |->
                            IF t # s /\ store' # store THEN TRUE ELSE others[t]]
            /\ UNCHANGED <<state, ops, closes, genVars, fault, begin>>
       ELSE /\ FailFlush(s, FlushError(handle[s]))

\* db.rollback(), also how the caller recovers from a failed flush: the
\* staged changes and the open transaction are discarded
rollback(s) ==
    /\ gen[s] = "yielded"
    /\ state[handle[s]] = "open"
    /\ \/ fault[s] \in StoreErrors
       \/ staged[handle[s]] # {}
       \/ handle[s] \in writer
    /\ staged' = [staged EXCEPT ![handle[s]] = {}]
    /\ writer' = writer \ {handle[s]}
    /\ wview' = IF handle[s] \in writer THEN {} ELSE wview
    /\ fault' = [fault EXCEPT ![s] = "none"]
    /\ uncommitted' = [uncommitted EXCEPT ![s] = {}]
    /\ UNCHANGED <<store, state, ops, closes, genVars, begin, committed,
                   others>>

Next ==
    \E s \in Scopes :
        \/ get_db(s)
        \/ get_db_acquire(s)
        \/ get_db_return(s)
        \/ \E e \in CallerErrors \cup StoreErrors : get_db_throw(s, e)
        \/ get_db_close(s)
        \/ get_db_exhausted(s)
        \/ \E r \in User : add(s, r)
        \/ \E r \in User, n \in Names : set_name(s, r, n)
        \/ \E r \in User : delete(s, r)
        \/ flush(s)
        \/ commit(s)
        \/ rollback(s)

Spec == Init /\ [][Next]_vars

\* --------------------------------------------------------------- the claims
Active(s) == gen[s] = "yielded"
Ended(s) == gen[s] = "finished"
Release(s) ==
    \/ get_db_return(s)
    \/ \E e \in CallerErrors \cup StoreErrors : get_db_throw(s, e)
    \/ get_db_close(s)

\* the committed rows carrying the pair (id, puuid) of r
Committed(r) == {x \in store : x.id = r.id /\ x.puuid = r.puuid}

\* C1: the handle of every get_db scope is released exactly once: never while
\* the scope is in use, once when the scope has ended (normally, by a failure
\* or by close), and at no time more than once.
C1_ReleasedExactlyOnce ==
    /\ \A h \in Handles : closes[h] <= 1
    /\ \A s \in Scopes :
        /\ Active(s) => closes[handle[s]] = 0
        /\ Ended(s) => closes[handle[s]] = 1

C1_Witness ==
    \E s, t \in Scopes :
        /\ Ended(s) /\ thrown[s] \in StoreErrors /\ closes[handle[s]] = 1
        /\ Ended(t) /\ raised[t] = "StopIteration" /\ closes[handle[t]] = 1

\* C2: when the caller's use fails and the failure is thrown into get_db, the
\* handle is released and the failure get_db raises to the caller is that
\* same failure; the generator has ended (the work is not run again) and it
\* yielded once.
C2_FailurePropagates ==
    \A s \in Scopes :
        thrown[s] # "none" =>
            /\ raised[s] = thrown[s]
            /\ Ended(s)
            /\ state[handle[s]] = "closed"
            /\ log[s] = <<"acquire", "yield", "release">>

C2_Witness ==
    /\ \E s \in Scopes : thrown[s] = "IntegrityError" /\ Ended(s)
    /\ \E s \in Scopes : thrown[s] = "HTTPException" /\ Ended(s)

\* C3: a scope that has ended without its caller ever issuing commit leaves
\* the store holding exactly the rows it held when the scope began (no other
\* scope having committed a change in the meantime).
C3_RollbackByDefault ==
    \A s \in Scopes :
        (Ended(s) /\ ~committed[s] /\ ~others[s]) => store = begin[s]

\* every change of the run was made through the handle of s (the other scope
\* never started), and s ended without commit
C3_Witness ==
    \E s, t \in Scopes :
        /\ s # t /\ gen[t] = "none"
        /\ Ended(s) /\ ~committed[s] /\ ops = MaxOps
        /\ store = begin[s]

\* C4: a flush or commit that carries an insert of a User whose (id, puuid)
\* pair is already held by a row the handle sees fails with an error, and the
\* store is left as it was: the committed row of that pair, if any, is still
\* the one original row.
C4_Duplicate(s) ==
    \A o \in staged[handle[s]] :
        (/\ o.op = "insert"
         /\ \E x \in Visible(handle[s]) : x.id = o.rec.id /\ x.puuid = o.rec.puuid)
        => /\ fault'[s] \in StoreErrors
           /\ store' = store
           /\ Committed(o.rec)' = Committed(o.rec)
           /\ Cardinality(Committed(o.rec)') <= 1

C4_DuplicateInsertFails ==
    [][\A s \in Scopes : (flush(s) \/ commit(s)) => C4_Duplicate(s)]_vars

C4_Witness ==
    \E s \in Scopes, x \in store :
        /\ fault[s] = "IntegrityError"
        /\ x.name = "x"
        /\ Committed(x) = {x}

\* C5: once an insert of a User (id, puuid, name) through a handle has been
\* written (its flush or commit succeeded), reading by the key (id, puuid)
\* through that handle returns exactly one record, and its name is the
\* inserted name.
C5_ReadBack(s) ==
    \A o \in staged[handle[s]] :
        (o.op = "insert" /\ fault'[s] = "none")
        => \E x \in User :
              /\ Get(handle[s], Key(o.rec))' = {x}
              /\ x.id = o.rec.id /\ x.puuid = o.rec.puuid
              /\ x.name = o.rec.name

C5_InsertThenRead ==
    [][\A s \in Scopes : (flush(s) \/ commit(s)) => C5_ReadBack(s)]_vars

C5_Witness ==
    \E s \in Scopes, x \in store :
        /\ Active(s) /\ committed[s]
        /\ x \notin begin[s]
        /\ x.name = None
        /\ Get(handle[s], Key(x)) = {x}

\* C6: with two scopes open at once, each can always be ended and each can
\* always attempt its writes (nothing waits on the other scope), and a row
\* one scope has changed and not committed reads, through the other scope's
\* handle, exactly as it is committed in the store.
C6_CanFinish(s) ==
    /\ ENABLED Release(s)
    /\ (fault[s] = "none" /\ staged[handle[s]] # {}) => ENABLED flush(s)

C6_Isolated(s, t) ==
    \A k \in uncommitted[s] \ uncommitted[t] :
        Get(handle[t], k) = {x \in store : Key(x) = k}

C6_ConcurrentHandles ==
    \A s, t \in Scopes :
        (s # t /\ Active(s) /\ Active(t)) =>
            /\ C6_CanFinish(s)
            /\ C6_Isolated(s, t)

C6_Witness ==
    \E s, t \in Scopes :
        /\ s # t /\ Active(s) /\ Active(t)
        /\ handle[s] \in writer /\ wview # store
        /\ uncommitted[s] # {}
        /\ staged[handle[t]] # {}

\* C7: no two rows of userinfo, committed or inside the open write
\* transaction, carry the same (id, puuid) pair.
C7_CompositeKeyUnique ==
    \A table \in {store, wview} :
        \A x, y \in table : (x.id = y.id /\ x.puuid = y.puuid) => x = y

\* rows sharing id, rows sharing puuid, rows sharing a name and a row without
\* a name, side by side
C7_Witness ==
    \E x, y, z \in store :
        /\ x.id = y.id /\ x.puuid # y.puuid
        /\ x.puuid = z.puuid /\ x.id # z.id
        /\ x.name = y.name
        /\ z.name = None

\* C8: the store changes only in a step that is a commit; that step puts the
\* staged and flushed changes of the handle in the store; releasing a handle
\* leaves the store as it is; and a handle just acquired reads the store.
C8_CommitStores(s) ==
    (commit(s) /\ fault'[s] = "none") =>
        /\ store' = Flushed(handle[s])
        /\ \A o \in staged[handle[s]] :
              IF o.op = "delete" THEN Committed(o.rec)' = {}
              ELSE Committed(o.rec)' = {Row(o.rec)}

C8_Step ==
    /\ store' # store => \E s \in Scopes : commit(s)
    /\ \A s \in Scopes :
        /\ C8_CommitStores(s)
        /\ Release(s) => store' = store
        /\ get_db_acquire(s) => Visible(handle[s])' = store'

C8_BufferedUntilCommit == [][C8_Step]_vars

C8_Witness ==
    \E s, t \in Scopes :
        /\ Ended(s) /\ committed[s] /\ store # begin[s]
        /\ Active(t) /\ begin[t] = store /\ ~others[t]
        /\ Visible(handle[t]) = store

\* C9: two scopes that are both in use never hold the same handle, and the
\* handle of a scope in use is open whatever the other scopes have released.
C9_OwnHandle ==
    \A s \in Scopes :
        Active(s) =>
            /\ state[handle[s]] = "open"
            /\ \A t \in Scopes : (t # s /\ gen[t] \in {"yielded", "finished"})
                                    => handle[t] # handle[s]

C9_Witness ==
    \E s, t \in Scopes :
        /\ Active(s) /\ Ended(t)
        /\ state[handle[t]] = "closed"
        /\ state[handle[s]] = "open"

\* C10: the events of one get_db invocation are acquire, yield, release in
\* that order: nothing before the first resumption, one handle yielded and
\* still unreleased while the scope is in use, and the release last, with no
\* further yield after it.
C10_Order ==
    \A s \in Scopes :
        /\ gen[s] \in {"none", "created"} => (log[s] = <<>> /\ handle[s] = 0)
        /\ Active(s) => /\ log[s] = <<"acquire", "yield">>
                        /\ closes[handle[s]] = 0
        /\ Ended(s) => log[s] = <<"acquire", "yield", "release">>

C10_Witness ==
    \E s, t \in Scopes :
        /\ log[s] = <<"acquire", "yield", "release">>
        /\ log[t] = <<"acquire", "yield">>

====
